---- MODULE Spec2Model ----
(***************************************************************************)
(* Playback queue (src/model/queue.rs) and the event dispatcher's playback *)
(* handlers (src/events/handlers.rs) of chooui.                            *)
(*                                                                         *)
(* Option<T> is modelled as a sequence of length at most one: None is <<>> *)
(* and Some(x) is <<x>>.  Vec / VecDeque are sequences, front at index 1.  *)
(* usize indices stay 0-based as in the source.                            *)
(***************************************************************************)
EXTENDS Bags, FiniteSets, Integers, Sequences, TLC

\* ------------------------------------------------------------------ bounds
\* Number of distinct tracks (track_id 1..NumTracks) that can be offered.
NumTracks == 2
\* Largest number of tracks held by the queue (played + queued).
MaxLen == 3
\* Largest Vec<TrackInfo> handed to one add_tracks call.
MaxAdd == 2
\* Largest number of undelivered commands in the audio command channel.
MaxChan == 2
\* Largest number of poll iterations of the audio worker that are followed.
MaxPolls == 3
\* Largest number of events waiting in the dispatcher's channel.
MaxEvents == 2
\* Largest number of tasks sent to the task worker in one run.
MaxTasks == 3

\* ------------------------------------------------------------- Option<T>
None == <<>>
Some(x) == <<x>>
unwrap(o) == o[1]

\* -------------------------------------------------------------- TrackInfo
\* The fields of TrackInfo the queue and the handlers read.
TrackInfo(i) ==
  [track_id |-> i, duration |-> 160 + 20 * i, filename |-> i]

TrackIds == 1..NumTracks
AllTracks == {TrackInfo(i) : i \in TrackIds}

\* Vec<TrackInfo> arguments of length 0..MaxAdd.
TrackVecs == UNION {[1..n -> AllTracks] : n \in 0..MaxAdd}

\* iter().map(|t| t.duration).sum()
RECURSIVE duration_sum(_)
duration_sum(s) ==
  IF s = <<>> THEN 0 ELSE Head(s).duration + duration_sum(Tail(s))

\* Vec::last
last(s) == IF s = <<>> THEN None ELSE Some(s[Len(s)])

\* Vec::get with a 0-based index
get(s, i) == IF i < Len(s) THEN Some(s[i + 1]) ELSE None

\* Vec::pop: the vector without its last element
pop(s) == SubSeq(s, 1, Len(s) - 1)

\* retain(|track| !ids_to_remove.contains(&track.track_id))
retain_not_in(s, ids) ==
  LET keep(t) == t.track_id \notin ids IN SelectSeq(s, keep)

\* ------------------------------------------------------------------ Queue
\* Queue::new
new ==
  [tracks |-> <<>>, queued |-> <<>>, played |-> <<>>,
   total_duration |-> 0, queued_duration |-> 0, played_duration |-> 0]

\* A plausible slip: the total is taken from the future segment only.
sync_tracks_queued_only(q) ==
  [q EXCEPT !.played_duration = duration_sum(q.played),
            !.queued_duration = duration_sum(q.queued),
            !.total_duration = duration_sum(q.queued),
            !.tracks = q.played \o q.queued]

\* A plausible slip: the total is not recomputed.
sync_tracks_total_kept(q) ==
  [q EXCEPT !.played_duration = duration_sum(q.played),
            !.queued_duration = duration_sum(q.queued),
            !.tracks = q.played \o q.queued]

\* Queue::sync_tracks
sync_tracks(q) ==
  [q EXCEPT !.played_duration = duration_sum(q.played),
            !.queued_duration = duration_sum(q.queued),
            !.total_duration = duration_sum(q.played) + duration_sum(q.queued),
            !.tracks = q.played \o q.queued]

\* Queue::add_tracks
add_tracks(q, tracks) ==
  sync_tracks([q EXCEPT !.queued = @ \o tracks])

\* A plausible slip: only the future segment is filtered.
remove_tracks_queued_only(q, track_ids) ==
  sync_tracks([q EXCEPT !.queued = retain_not_in(@, track_ids)])

\* Queue::remove_tracks
remove_tracks(q, track_ids) ==
  sync_tracks([q EXCEPT !.played = retain_not_in(@, track_ids),
                        !.queued = retain_not_in(@, track_ids)])

\* The orders slice.shuffle can produce for a slice of length n.
Perms(n) ==
  {f \in [1..n -> 1..n] : \A i, j \in 1..n : f[i] = f[j] => i = j}

\* A plausible slip: elements are sampled instead of permuted.
shuffle_sampled(q, perm) ==
  sync_tracks([q EXCEPT !.queued =
                 [i \in 1..Len(q.queued) |-> q.queued[perm[1]]]])

\* A plausible slip: the snapshot is not refreshed after the shuffle.
shuffle_unsynced(q, perm) ==
  [q EXCEPT !.queued = [i \in 1..Len(q.queued) |-> q.queued[perm[i]]]]

\* Queue::shuffle; perm is the order the random generator picks.
shuffle(q, perm) ==
  sync_tracks([q EXCEPT !.queued =
                 [i \in 1..Len(q.queued) |-> q.queued[perm[i]]]])

\* A plausible slip: the snapshot is not refreshed.
clear_no_sync(q) == [q EXCEPT !.queued = <<>>, !.played = <<>>]

\* Queue::clear
clear(q) ==
  sync_tracks([q EXCEPT !.queued = <<>>, !.played = <<>>])

\* A plausible slip: history is walked oldest first, which reverses it.
RECURSIVE reset_oldest_first(_)
reset_oldest_first(q) ==
  IF q.played = <<>> THEN q
  ELSE reset_oldest_first([q EXCEPT !.played = Tail(@),
                                    !.queued = <<Head(q.played)>> \o @])

\* Queue::reset: while let Some(track) = played.pop() { queued.push_front }
RECURSIVE reset(_)
reset(q) ==
  IF q.played = <<>> THEN q
  ELSE reset([q EXCEPT !.played = pop(@),
                       !.queued = <<q.played[Len(q.played)]>> \o @])

\* Queue::current
current(q) == last(q.played)

\* A plausible slip: pop_back instead of pop_front.
next_from_back(q) ==
  IF q.queued # <<>>
  THEN [q EXCEPT !.queued = pop(@),
                 !.played = Append(@, q.queued[Len(q.queued)])]
  ELSE q

\* Queue::next (the state it leaves; it returns current of that state)
next(q) ==
  IF q.queued # <<>>
  THEN [q EXCEPT !.queued = Tail(@), !.played = Append(@, Head(q.queued))]
  ELSE q

\* A plausible slip: the popped track is not put back into queued.
previous_discard(q) ==
  IF q.played # <<>> THEN [q EXCEPT !.played = pop(@)] ELSE q

\* A plausible slip: the popped track is put at the back of queued.
previous_push_back(q) ==
  IF q.played # <<>>
  THEN [q EXCEPT !.played = pop(@),
                 !.queued = Append(@, q.played[Len(q.played)])]
  ELSE q

\* Queue::previous (the state it leaves; it returns current of that state)
previous(q) ==
  IF q.played # <<>>
  THEN [q EXCEPT !.played = pop(@),
                 !.queued = <<q.played[Len(q.played)]>> \o @]
  ELSE q

\* Number of tracks a queue holds.
held(q) == Len(q.played) + Len(q.queued)

\* The two segments of a queue, as kept in the call history.
segments(q) == [played |-> q.played, queued |-> q.queued]

\* ------------------------------------------------------------------ state
VARIABLES
  queue,              \* app.queue: the Queue record
  current_queue_idx,  \* app.current_queue_idx: Option<usize>
  play_mode,          \* app.play_mode
  repeat_mode,        \* app.repeat_mode
  now_playing,        \* app.now_playing: Option<TrackInfo>
  audio_cmds,         \* AudioPlayer.command_tx: commands not yet received
  worker,             \* the audio worker thread: "init", "loop" or "dead"
  dispatcher,         \* process_events: "running", or "error" once it returned Err
  issued,             \* commands the last handler passed to the audio player
  lastOp,             \* the last Queue call or handler that ran
  prevOp,             \* the Queue call before the last one
  pre,                \* segments before the last Queue call
  pre2,               \* segments before the last two Queue calls
  ret,                \* what the last Queue::next / Queue::previous returned
  finished,           \* TrackFinished events handled since PlayPlaylist started
                      \* playback at the first track, None after any other event
  player_state,       \* app.player_state
  selection,          \* what last decided current_queue_idx: "never" (nothing
                      \* yet), "started", "cleared" or "exhausted"
  ever_played,        \* a PlayFile has been delivered to the command channel
  is_paused,          \* audio_player_worker: is_paused
  is_idle,            \* audio_player_worker: is_idle
  current_state,      \* audio_player_worker: player_state
  polls,              \* the poll iterations of the worker so far
  engine,             \* the native engine as the worker's calls leave it
  drained,            \* the engine calls of the worker's last drain
  drained_from,       \* the engine as the worker's last drain found it
  worker_pc,          \* audio_player_worker's loop: "commands" or "poll"
  events,             \* App.event_rx: events sent and not yet received
  iteration,          \* the last iteration of process_events
  tasks,              \* App.task_tx: tasks sent and not yet received
  task_worker,        \* the task worker thread: "init", "recv", "run",
                      \* "scan" or "dead"
  running,            \* the task handle_task is running: Option
  submitted,          \* how many tasks have been sent so far
  task_log            \* what the task worker did, in order

vars ==
  <<queue, current_queue_idx, play_mode, repeat_mode, now_playing, audio_cmds,
    worker, dispatcher, issued, lastOp, prevOp, pre, pre2, ret, finished,
    player_state, selection, ever_played, is_paused, is_idle, current_state,
    polls, engine, drained, drained_from, worker_pc, events, iteration, tasks, task_worker,
    running, submitted, task_log>>

poll == <<is_paused, is_idle, current_state, polls>>
worker_iter == <<drained, drained_from, worker_pc>>
loop == <<events, iteration>>
executor == <<tasks, task_worker, running, submitted, task_log>>
app == <<current_queue_idx, play_mode, repeat_mode, now_playing, audio_cmds,
         worker, dispatcher, issued, finished, player_state, selection,
         ever_played, poll, engine, worker_iter, loop, executor>>
calls == <<prevOp, pre, pre2, ret>>

PlayModes == {"PlayOne", "Playlist"}
PlayerStates == {"Playing", "Paused", "Stopped"}
RepeatModes == {"NoRepeat", "RepeatOne", "RepeatAll"}

\* AudioPlayerCommand; the field filename holds the argument of the command,
\* which only PlayFile looks at.
PlayFile(filename) == [cmd |-> "PlayFile", filename |-> filename]
TogglePause == [cmd |-> "TogglePause", filename |-> 0]
Seek == [cmd |-> "Seek", filename |-> 0]
Stop == [cmd |-> "Stop", filename |-> 0]

\* An AppEvent: PlayerStateChanged carries a state, the content events carry
\* a number; the payload of the other events is drawn when they are handled.
AppEvent(event, state, value) ==
  [event |-> event, state |-> state, value |-> value]

PlayerStateChanged(state) == AppEvent("PlayerStateChanged", state, 0)
TrackFinished == AppEvent("TrackFinished", "-", 0)
FatalError == AppEvent("FatalError", "-", 0)
Error == AppEvent("Error", "-", 0)
ExitApplication == AppEvent("ExitApplication", "-", 0)

\* App::new, for the fields of the sources' App struct.
AppNew ==
  /\ queue = new
  /\ player_state = "Stopped"
  /\ now_playing = None

\* The playback fields the handlers use.  Nothing is selected before the
\* first play; neither mode has a setter in the sources, so every value is
\* a possible configuration of a run.
PlaybackNew ==
  /\ current_queue_idx = None
  /\ play_mode \in PlayModes
  /\ repeat_mode \in RepeatModes

\* audio_player_worker, the locals it sets before its loop
WorkerNew ==
  /\ is_paused = FALSE
  /\ is_idle = TRUE
  /\ current_state = "Stopped"
  /\ polls = <<>>

\* The engine as MpvHandlerBuilder::build leaves it: nothing loaded, not
\* paused.  The worker is at the top of its loop, and has drained nothing.
EngineNew ==
  /\ engine = [media |-> None, pause |-> FALSE]
  /\ drained = <<>>
  /\ drained_from = [media |-> None, pause |-> FALSE]
  /\ worker_pc = "commands"

\* The channels of main: nothing sent yet, no iteration of process_events
\* made, the task worker not yet past init_db.
ChannelsNew ==
  /\ events = <<>>
  /\ iteration = None
  /\ tasks = <<>>
  /\ task_worker = "init"
  /\ running = None
  /\ submitted = 0
  /\ task_log = <<>>

Init ==
  /\ AppNew
  /\ PlaybackNew
  /\ audio_cmds = <<>>
  /\ worker = "init"
  /\ dispatcher = "running"
  /\ issued = <<>>
  /\ lastOp = "new"
  /\ prevOp = "new"
  /\ pre = segments(new)
  /\ pre2 = segments(new)
  /\ ret = None
  /\ finished = None
  /\ selection = "never"
  /\ ever_played = FALSE
  /\ WorkerNew
  /\ EngineNew
  /\ ChannelsNew

\* ------------------------------------------------- calls of the Queue API
\* One call of a Queue method that leaves the queue as q and returns r.
Call(op, q, r) ==
  /\ queue' = q
  /\ lastOp' = op
  /\ prevOp' = lastOp
  /\ pre' = segments(queue)
  /\ pre2' = pre
  /\ ret' = r
  /\ UNCHANGED app

CallAddTracks ==
  \E tracks \in TrackVecs :
    /\ held(queue) + Len(tracks) <= MaxLen
    /\ Call("add_tracks", add_tracks(queue, tracks), None)

\* The call remove_tracks(track_ids)
CallRemoveTracksOf(track_ids) ==
  Call("remove_tracks", remove_tracks(queue, track_ids), None)

CallRemoveTracks ==
  \E track_ids \in SUBSET TrackIds : CallRemoveTracksOf(track_ids)

CallShuffle ==
  \E perm \in Perms(Len(queue.queued)) :
    Call("shuffle", shuffle(queue, perm), None)

CallClear == Call("clear", clear(queue), None)

CallReset == Call("reset", reset(queue), None)

CallNext == Call("next", next(queue), current(next(queue)))

CallPrevious == Call("previous", previous(queue), current(previous(queue)))

QueueNext ==
  \/ CallAddTracks
  \/ CallRemoveTracks
  \/ CallShuffle
  \/ CallClear
  \/ CallReset
  \/ CallNext
  \/ CallPrevious

\* A Queue on its own: the playback modes play no part in its calls.
QueueInit ==
  /\ Init
  /\ play_mode = "PlayOne"
  /\ repeat_mode = "NoRepeat"

\* Every sequence of calls on one Queue.
QueueSpec == QueueInit /\ [][QueueNext]_vars

\* ------------------------------------------------------- audio player
\* AudioPlayer::play_file: command_tx.send(PlayFile(filename))?.  The send
\* fails once the worker thread has ended and dropped its receiver.
play_file(filename) ==
  IF worker # "dead"
  THEN [ok |-> TRUE, cmds |-> Append(audio_cmds, PlayFile(filename))]
  ELSE [ok |-> FALSE, cmds |-> audio_cmds]

\* audio_player_worker up to its loop: building the engine handle either
\* succeeds or makes the function return Err, which drops the receiver;
\* spawn_player_worker then sends FatalError.
audio_player_worker_init ==
  /\ worker = "init"
  /\ \/ worker' = "loop" /\ audio_cmds' = audio_cmds /\ events' = events
     \/ /\ worker' = "dead"
        /\ audio_cmds' = <<>>
        /\ events' = Append(events, FatalError)
  /\ UNCHANGED <<queue, current_queue_idx, play_mode, repeat_mode, now_playing,
                 dispatcher, issued, lastOp, finished, calls, player_state,
                 selection, ever_played, poll, engine, worker_iter, iteration,
                 executor>>

\* A plausible slip: PlayFile loads the file and leaves the pause flag.
execute_keeps_pause(eng, command) ==
  CASE command.cmd = "PlayFile" ->
         [eng EXCEPT !.media = Some(command.filename)]
    [] command.cmd = "TogglePause" -> [eng EXCEPT !.pause = ~eng.pause]
    [] command.cmd = "Stop" -> [eng EXCEPT !.media = None]
    [] OTHER -> eng

\* process_commands, one arm of the match with every engine call of the arm
\* succeeding: loadfile replace and pause=false, cycle pause, stop; seek and
\* the volume and mute commands leave the media and the pause flag alone.
execute(eng, command) ==
  CASE command.cmd = "PlayFile" ->
         [media |-> Some(command.filename), pause |-> FALSE]
    [] command.cmd = "TogglePause" -> [eng EXCEPT !.pause = ~eng.pause]
    [] command.cmd = "Stop" -> [eng EXCEPT !.media = None]
    [] OTHER -> eng

\* The thread ending drops the MpvHandler, and with it the engine and what
\* it had loaded.
dropped == [media |-> None, pause |-> FALSE]

\* How a failing arm leaves the function: `?` returns Err, unwrap panics.
fails_by(command) ==
  IF command.cmd \in {"TogglePause", "ToggleMute"} THEN "panic" ELSE "Err"

\* A plausible slip: a load is skipped when a later load is already waiting.
RECURSIVE run_latest_load(_, _)
run_latest_load(eng, cmds) ==
  IF cmds = <<>> THEN [engine |-> eng, calls |-> <<>>]
  ELSE IF /\ Head(cmds).cmd = "PlayFile"
          /\ \E i \in 2..Len(cmds) : cmds[i].cmd = "PlayFile"
       THEN run_latest_load(eng, Tail(cmds))
       ELSE LET rest == run_latest_load(execute(eng, Head(cmds)), Tail(cmds))
            IN [engine |-> rest.engine, calls |-> <<Head(cmds)>> \o rest.calls]

\* A plausible slip: the commands are taken from the back of the channel.
RECURSIVE run_newest_first(_, _)
run_newest_first(eng, cmds) ==
  IF cmds = <<>> THEN [engine |-> eng, calls |-> <<>>]
  ELSE LET newest == cmds[Len(cmds)]
           rest == run_newest_first(execute(eng, newest), pop(cmds))
       IN [engine |-> rest.engine, calls |-> <<newest>> \o rest.calls]

\* process_commands, the while-let loop over commands that all succeed: the
\* engine it leaves and the commands it executed, in the order of try_recv.
RECURSIVE run(_, _)
run(eng, cmds) ==
  IF cmds = <<>> THEN [engine |-> eng, calls |-> <<>>]
  ELSE LET rest == run(execute(eng, Head(cmds)), Tail(cmds))
       IN [engine |-> rest.engine, calls |-> <<Head(cmds)>> \o rest.calls]

\* The ways one call of process_commands can go: every command succeeds,
\* or the first n - 1 succeed and an engine call of the n-th fails.
drains(eng, cmds) ==
  {[engine |-> run(eng, cmds).engine, calls |-> run(eng, cmds).calls,
    worker |-> "loop", fatal |-> FALSE]}
  \cup {[engine |-> dropped,
         calls |-> run(eng, SubSeq(cmds, 1, n - 1)).calls,
         worker |-> "dead",
         fatal |-> fails_by(cmds[n]) = "Err"] : n \in 1..Len(cmds)}

\* process_commands going the way o: every command waiting is received; a
\* failure ends the thread, which drops the receiver, and an Err is
\* reported by spawn_player_worker as FatalError.
process_commands_as(o) ==
  /\ worker = "loop"
  /\ audio_cmds' = <<>>
  /\ engine' = o.engine
  /\ worker' = o.worker
  /\ events' = IF o.fatal THEN Append(events, FatalError) ELSE events
  /\ UNCHANGED <<queue, current_queue_idx, play_mode, repeat_mode, now_playing,
                 dispatcher, issued, lastOp, finished, calls, player_state,
                 selection, ever_played, poll, iteration, executor>>

\* process_commands
process_commands ==
  \E o \in drains(engine, audio_cmds) :
    /\ process_commands_as(o)
    /\ UNCHANGED worker_iter

\* ------------------------------------------ audio worker, its loop
\* The commands a caller of AudioPlayer sends.  AdjustVolume goes the way
\* of Seek and ToggleMute the way of TogglePause: neither touches the media
\* or the pause flag.
AudioCommands ==
  {PlayFile(filename) : filename \in TrackIds} \cup {TogglePause, Seek, Stop}

\* AudioPlayer::play_file, toggle_pause, stop, adjust_volume, toggle_mute and
\* seek: command_tx.send(command)?.  A send to a worker that has ended
\* returns Err and queues nothing.
AudioPlayer_send ==
  \E command \in AudioCommands :
    /\ worker # "dead"
    /\ Len(audio_cmds) < MaxChan
    /\ audio_cmds' = Append(audio_cmds, command)
    /\ UNCHANGED <<queue, current_queue_idx, play_mode, repeat_mode,
                   now_playing, worker, dispatcher, issued, lastOp, finished,
                   calls, player_state, selection, ever_played, poll, engine,
                   worker_iter, loop, executor>>

\* audio_player_worker, the first statement of its loop: process_commands,
\* after which the worker polls unless the thread has ended.
worker_drain ==
  \E o \in drains(engine, audio_cmds) :
    /\ worker_pc = "commands"
    /\ process_commands_as(o)
    /\ drained' = o.calls
    /\ drained_from' = drained_from
    /\ worker_pc' = IF o.worker = "loop" THEN "poll" ELSE "commands"

\* audio_player_worker, the second statement of its loop, when wait_event
\* gives nothing within its 50ms: process_mpv_events returns Ok and the
\* loop starts over.
worker_poll ==
  /\ worker = "loop"
  /\ worker_pc = "poll"
  /\ worker_pc' = "commands"
  /\ UNCHANGED <<queue, current_queue_idx, play_mode, repeat_mode, now_playing,
                 audio_cmds, worker, dispatcher, issued, lastOp, finished,
                 calls, player_state, selection, ever_played, poll, engine,
                 drained, drained_from, loop, executor>>

CommandNext ==
  \/ AudioPlayer_send
  \/ audio_player_worker_init
  \/ worker_drain
  \/ worker_poll

\* The audio worker beside a caller that sends it any commands.
CommandSpec == QueueInit /\ [][CommandNext]_vars

\* audio_player_worker, one turn of its loop in which wait_event gives
\* nothing: process_commands, then process_mpv_events returning Ok at once.
\* The engine the drain found is kept beside the calls it made.
worker_turn ==
  \E o \in drains(engine, audio_cmds) :
    /\ worker_pc = "commands"
    /\ process_commands_as(o)
    /\ drained' = o.calls
    /\ drained_from' = engine
    /\ worker_pc' = worker_pc

EngineNext ==
  \/ AudioPlayer_send
  \/ audio_player_worker_init
  \/ worker_turn

\* The audio worker's engine beside a caller that sends it any commands.
EngineSpec == QueueInit /\ [][EngineNext]_vars

\* The worker thread is scheduled: it gets past the engine's start, and
\* neither statement of its loop waits for ever.
FairCommandSpec ==
  /\ CommandSpec
  /\ WF_vars(audio_player_worker_init)
  /\ WF_vars(worker_drain)
  /\ WF_vars(worker_poll)

\* ------------------------------------------------- audio worker, polling
\* A notification of the engine, as wait_event hands it over.  ev is the
\* kind of mpv::Event; a PropertyChange carries the property name, the
\* format and a flag or a number; an EndFile carries Ok with its reason or Err.
MpvEvent(ev, name, format, flag, value) ==
  [ev |-> ev, name |-> name, format |-> format, flag |-> flag, value |-> value]

PropertyChanges ==
  {MpvEvent("PropertyChange", "media-title", "Str", FALSE, 1),
   MpvEvent("PropertyChange", "duration", "Double", FALSE, 200),
   MpvEvent("PropertyChange", "volume", "Double", FALSE, 50),
   MpvEvent("PropertyChange", "idle-active", "Double", FALSE, 1)}
  \cup {MpvEvent("PropertyChange", "pause", "Flag", b, 0) : b \in BOOLEAN}
  \cup {MpvEvent("PropertyChange", "idle-active", "Flag", b, 0) : b \in BOOLEAN}
  \cup {MpvEvent("PropertyChange", "time-pos", "Double", FALSE, v) :
          v \in {-1, 0, 5}}

EndFiles ==
  {MpvEvent("EndFile", "Ok", r, FALSE, 0) : r \in {"EOF", "STOP", "ERROR"}}
  \cup {MpvEvent("EndFile", "Err", "-", FALSE, 0)}

MpvEvents ==
  PropertyChanges \cup EndFiles \cup {MpvEvent("Other", "-", "-", FALSE, 0)}

\* `as u64` / `as u32` of a whole double: negative values saturate at 0.
as_unsigned(x) == IF x < 0 THEN 0 ELSE x

\* A plausible slip: the pause flag is looked at before the idle flag.
player_state_paused_first(paused, idle) ==
  IF paused THEN "Paused"
  ELSE IF idle THEN "Stopped"
  ELSE "Playing"

\* AudioPlayer::player_state
AudioPlayer_player_state(paused, idle) ==
  IF idle THEN "Stopped"
  ELSE IF paused THEN "Paused"
  ELSE "Playing"

\* A plausible slip: every end of file counts as a finished track.
app_event_any_end(e) ==
  IF e.ev = "PropertyChange"
  THEN IF e.name = "media-title" /\ e.format = "Str"
         THEN Some(AppEvent("TitleChanged", "-", e.value))
       ELSE IF e.name = "duration" /\ e.format = "Double"
         THEN Some(AppEvent("DurationChanged", "-", as_unsigned(e.value)))
       ELSE IF e.name = "time-pos" /\ e.format = "Double" /\ e.value >= 0
         THEN Some(AppEvent("TimeChanged", "-", e.value))
       ELSE IF e.name = "volume" /\ e.format = "Double"
         THEN Some(AppEvent("VolumeChanged", "-", as_unsigned(e.value)))
       ELSE None
  ELSE IF e.ev = "EndFile"
  THEN IF e.name = "Ok" THEN Some(TrackFinished) ELSE None
  ELSE None

\* A plausible slip: the flag arms report the state themselves, next to the
\* comparison that follows the match.
app_event_flags_report(e) ==
  IF e.ev = "PropertyChange"
  THEN IF e.name = "media-title" /\ e.format = "Str"
         THEN Some(AppEvent("TitleChanged", "-", e.value))
       ELSE IF e.name = "duration" /\ e.format = "Double"
         THEN Some(AppEvent("DurationChanged", "-", as_unsigned(e.value)))
       ELSE IF e.name = "pause" /\ e.format = "Flag"
         THEN Some(PlayerStateChanged(IF e.flag THEN "Paused" ELSE "Playing"))
       ELSE IF e.name = "time-pos" /\ e.format = "Double" /\ e.value >= 0
         THEN Some(AppEvent("TimeChanged", "-", e.value))
       ELSE IF e.name = "volume" /\ e.format = "Double"
         THEN Some(AppEvent("VolumeChanged", "-", as_unsigned(e.value)))
       ELSE None
  ELSE IF e.ev = "EndFile"
  THEN IF e.name = "Ok" /\ e.format = "EOF" THEN Some(TrackFinished) ELSE None
  ELSE None

\* A plausible slip: the time-pos arm has no guard on the sign.
app_event_any_time(e) ==
  IF e.ev = "PropertyChange"
  THEN IF e.name = "media-title" /\ e.format = "Str"
         THEN Some(AppEvent("TitleChanged", "-", e.value))
       ELSE IF e.name = "duration" /\ e.format = "Double"
         THEN Some(AppEvent("DurationChanged", "-", as_unsigned(e.value)))
       ELSE IF e.name = "time-pos" /\ e.format = "Double"
         THEN Some(AppEvent("TimeChanged", "-", e.value))
       ELSE IF e.name = "volume" /\ e.format = "Double"
         THEN Some(AppEvent("VolumeChanged", "-", as_unsigned(e.value)))
       ELSE None
  ELSE IF e.ev = "EndFile"
  THEN IF e.name = "Ok" /\ e.format = "EOF" THEN Some(TrackFinished) ELSE None
  ELSE None

\* process_mpv_events: app_event, the value of the match on the mpv event
app_event(e) ==
  IF e.ev = "PropertyChange"
  THEN IF e.name = "media-title" /\ e.format = "Str"
         THEN Some(AppEvent("TitleChanged", "-", e.value))
       ELSE IF e.name = "duration" /\ e.format = "Double"
         THEN Some(AppEvent("DurationChanged", "-", as_unsigned(e.value)))
       ELSE IF e.name = "time-pos" /\ e.format = "Double" /\ e.value >= 0
         THEN Some(AppEvent("TimeChanged", "-", e.value))
       ELSE IF e.name = "volume" /\ e.format = "Double"
         THEN Some(AppEvent("VolumeChanged", "-", as_unsigned(e.value)))
       ELSE None
  ELSE IF e.ev = "EndFile"
  THEN IF e.name = "Ok" /\ e.format = "EOF" THEN Some(TrackFinished) ELSE None
  ELSE None

\* process_mpv_events: the flags the match leaves
paused_after(e, paused) ==
  IF e.ev = "PropertyChange" /\ e.name = "pause" /\ e.format = "Flag"
  THEN e.flag ELSE paused

\* A plausible slip: an end of file is taken as the engine going idle.
idle_after_end_file(e, idle) ==
  IF e.ev = "PropertyChange" /\ e.name = "idle-active" /\ e.format = "Flag"
  THEN e.flag
  ELSE IF e.ev = "EndFile" THEN TRUE ELSE idle

idle_after(e, idle) ==
  IF e.ev = "PropertyChange" /\ e.name = "idle-active" /\ e.format = "Flag"
  THEN e.flag ELSE idle

\* A plausible slip: the state is reported after every notification.
state_differs_always(new_player_state, state) ==
  new_player_state \in PlayerStates /\ state \in PlayerStates

\* process_mpv_events: if new_player_state != *current_state
state_differs(new_player_state, state) == new_player_state # state

\* process_mpv_events.  wait_event gives an event or, after 50ms, nothing.
\* The receiver of event_tx lives in App for the whole of main, so the sends
\* succeed.
process_mpv_events ==
  \E mpv_event \in {None} \cup {Some(e) : e \in MpvEvents} :
    /\ worker = "loop"
    /\ Len(polls) < MaxPolls
    /\ IF mpv_event = None
       THEN /\ polls' = Append(polls,
                 [event |-> None, before |-> current_state,
                  paused |-> is_paused, idle |-> is_idle, sent |-> <<>>])
            /\ UNCHANGED <<is_paused, is_idle, current_state, events>>
       ELSE LET e == unwrap(mpv_event)
                paused == paused_after(e, is_paused)
                idle == idle_after(e, is_idle)
                new_player_state == AudioPlayer_player_state(paused, idle)
                differs == state_differs(new_player_state, current_state)
                sent == (IF differs
                         THEN <<PlayerStateChanged(new_player_state)>>
                         ELSE <<>>)
                        \o app_event(e)
            IN /\ is_paused' = paused
               /\ is_idle' = idle
               /\ current_state' =
                    IF differs THEN new_player_state ELSE current_state
               /\ events' = events \o sent
               /\ polls' = Append(polls,
                    [event |-> mpv_event, before |-> current_state,
                     paused |-> paused, idle |-> idle, sent |-> sent])
    /\ UNCHANGED <<queue, current_queue_idx, play_mode, repeat_mode,
                   now_playing, audio_cmds, worker, dispatcher, issued,
                   lastOp, finished, calls, player_state, selection,
                   ever_played, engine, worker_iter, iteration, executor>>

WorkerNext ==
  \/ audio_player_worker_init
  \/ process_mpv_events

\* The audio worker on its own, fed any notifications of the engine.
WorkerSpec == QueueInit /\ [][WorkerNext]_vars

\* ------------------------------------------------------------- dispatcher
\* process_events takes an event only while its loop runs.  The channel
\* bound keeps the model finite.
Receives == dispatcher = "running" /\ Len(audio_cmds) < MaxChan

\* handle_add_tracks_to_queue
handle_add_tracks_to_queue ==
  \E tracks \in TrackVecs :
    /\ Receives
    /\ held(queue) + Len(tracks) <= MaxLen
    /\ queue' = add_tracks(queue, tracks)
    /\ issued' = <<>>
    /\ lastOp' = "add_tracks_to_queue"
    /\ UNCHANGED <<engine, worker_iter, executor>>
    /\ finished' = None
    /\ UNCHANGED <<current_queue_idx, play_mode, repeat_mode, now_playing,
                   audio_cmds, worker, dispatcher, calls, player_state,
                   selection, ever_played, poll>>

\* handle_play_track
handle_play_track ==
  \E track \in AllTracks :
    LET sent == play_file(track.filename) IN
    /\ Receives
    /\ play_mode' = "PlayOne"
    /\ audio_cmds' = sent.cmds
    /\ issued' = <<PlayFile(track.filename)>>
    /\ IF sent.ok
       THEN now_playing' = Some(track) /\ dispatcher' = "running"
       ELSE now_playing' = now_playing /\ dispatcher' = "error"
    /\ lastOp' = "play_track"
    /\ UNCHANGED <<engine, worker_iter, executor>>
    /\ finished' = None
    /\ ever_played' = (ever_played \/ sent.ok)
    /\ UNCHANGED <<queue, current_queue_idx, repeat_mode, worker, calls,
                   player_state, selection, poll>>

\* handle_play_playlist
handle_play_playlist ==
  LET tracks == queue.tracks
      starts == current_queue_idx = None /\ tracks # <<>>
      sent == play_file(tracks[1].filename)
  IN
  /\ Receives
  /\ play_mode' = "Playlist"
  /\ IF starts
     THEN /\ current_queue_idx' = Some(0)
          /\ audio_cmds' = sent.cmds
          /\ issued' = <<PlayFile(tracks[1].filename)>>
          /\ IF sent.ok
             THEN now_playing' = Some(tracks[1]) /\ dispatcher' = "running"
             ELSE now_playing' = now_playing /\ dispatcher' = "error"
          /\ finished' = Some(0)
          /\ selection' = "started"
          /\ ever_played' = (ever_played \/ sent.ok)
     ELSE /\ issued' = <<>>
          /\ finished' = None
          /\ UNCHANGED <<current_queue_idx, audio_cmds, now_playing, dispatcher,
                         selection, ever_played>>
  /\ lastOp' = "play_playlist"
  /\ UNCHANGED <<engine, worker_iter, executor>>
  /\ UNCHANGED <<queue, repeat_mode, worker, calls, player_state, poll>>

\* A plausible slip: the wrap is taken for every repeat mode but RepeatAll.
next_queue_idx_no_wrap(idx, total_tracks, mode) ==
  IF mode # "RepeatOne"
  THEN IF idx + 1 < total_tracks THEN Some(idx + 1)
       ELSE IF mode # "RepeatAll" THEN Some(0)
       ELSE None
  ELSE Some(idx)

\* A plausible slip: the end of the queue is tested one index too late.
next_queue_idx_past_end(idx, total_tracks, mode) ==
  IF mode # "RepeatOne"
  THEN IF idx + 1 <= total_tracks THEN Some(idx + 1)
       ELSE IF mode = "RepeatAll" THEN Some(0)
       ELSE None
  ELSE Some(idx)

\* A plausible slip: RepeatOne is not told apart from the other modes.
next_queue_idx_advances(idx, total_tracks, mode) ==
  IF idx + 1 < total_tracks THEN Some(idx + 1)
  ELSE IF mode = "RepeatAll" THEN Some(0)
  ELSE None

\* handle_track_finished, the index it leaves for Some(idx)
next_queue_idx(idx, total_tracks, mode) ==
  IF mode # "RepeatOne"
  THEN IF idx + 1 < total_tracks THEN Some(idx + 1)
       ELSE IF mode = "RepeatAll" THEN Some(0)
       ELSE None
  ELSE Some(idx)

\* The count of finished tracks, which stops at the length of the queue.
count_finished ==
  IF finished = None THEN None
  ELSE IF unwrap(finished) < Len(queue.tracks) THEN Some(unwrap(finished) + 1)
  ELSE finished

\* A plausible slip: the play mode is not looked at.
plays_playlist_any_mode(mode) == mode \in PlayModes

\* handle_track_finished: if app.play_mode == PlayMode::Playlist
plays_playlist(mode) == mode = "Playlist"

\* What decided the selection once a TrackFinished is handled: the queue is
\* exhausted when the last track finishes in Playlist mode without repeat.
selection_finished ==
  IF /\ play_mode = "Playlist"
     /\ current_queue_idx # None
     /\ queue.tracks # <<>>
     /\ repeat_mode = "NoRepeat"
     /\ unwrap(current_queue_idx) + 1 >= Len(queue.tracks)
  THEN "exhausted"
  ELSE selection

\* A plausible slip: the metadata is cleared with the selection.
now_playing_cleared(playing) == None

\* handle_track_finished, `if total_tracks == 0`: the branch sets the index
\* and returns, so app.now_playing stays what it was.
now_playing_when_empty(playing) == playing

\* handle_track_finished
handle_track_finished ==
  LET tracks == queue.tracks
      total_tracks == Len(tracks)
      idx == next_queue_idx(unwrap(current_queue_idx), total_tracks, repeat_mode)
      track == get(tracks, unwrap(idx))
      sent == play_file(unwrap(track).filename)
  IN
  /\ Receives
  /\ IF plays_playlist(play_mode) /\ total_tracks = 0
     THEN /\ current_queue_idx' = None
          /\ issued' = <<>>
          /\ now_playing' = now_playing_when_empty(now_playing)
          /\ UNCHANGED <<audio_cmds, dispatcher, ever_played>>
     ELSE IF plays_playlist(play_mode) /\ current_queue_idx # None
     THEN /\ current_queue_idx' = idx
          /\ IF idx # None /\ track # None
             THEN /\ audio_cmds' = sent.cmds
                  /\ issued' = <<PlayFile(unwrap(track).filename)>>
                  /\ ever_played' = (ever_played \/ sent.ok)
                  /\ IF sent.ok
                     THEN now_playing' = track /\ dispatcher' = "running"
                     ELSE now_playing' = now_playing /\ dispatcher' = "error"
             ELSE /\ now_playing' = IF idx = None THEN None ELSE now_playing
                  /\ issued' = <<>>
                  /\ UNCHANGED <<audio_cmds, dispatcher, ever_played>>
     ELSE /\ issued' = <<>>
          /\ UNCHANGED <<current_queue_idx, audio_cmds, now_playing, dispatcher,
                         ever_played>>
  /\ lastOp' = "track_finished"
  /\ UNCHANGED <<engine, worker_iter, executor>>
  /\ finished' = count_finished
  /\ selection' = selection_finished
  /\ UNCHANGED <<queue, play_mode, repeat_mode, worker, calls, player_state,
                 poll>>

\* handle_clear_queue
handle_clear_queue ==
  /\ Receives
  /\ current_queue_idx' = None
  /\ queue' = clear(queue)
  /\ issued' = <<>>
  /\ lastOp' = "clear_queue"
  /\ UNCHANGED <<engine, worker_iter, executor>>
  /\ finished' = None
  /\ selection' = "cleared"
  /\ UNCHANGED <<play_mode, repeat_mode, now_playing, audio_cmds, worker,
                 dispatcher, calls, player_state, ever_played, poll>>

\* process_global_key_event, the arm of the 'c' key; the key gets there when
\* the commander does not take it.
process_global_key_event_c ==
  /\ Receives
  /\ queue' = clear(queue)
  /\ current_queue_idx' = None
  /\ issued' = <<>>
  /\ lastOp' = "key_c"
  /\ UNCHANGED <<engine, worker_iter, executor>>
  /\ finished' = None
  /\ selection' = "cleared"
  /\ UNCHANGED <<play_mode, repeat_mode, now_playing, audio_cmds, worker,
                 dispatcher, calls, player_state, ever_played, poll>>

\* handle_player_state_changed
handle_player_state_changed ==
  \E state \in PlayerStates :
    /\ Receives
    /\ player_state' = state
    /\ issued' = <<>>
    /\ lastOp' = "player_state_changed"
    /\ UNCHANGED <<engine, worker_iter, executor>>
    /\ finished' = None
    /\ UNCHANGED <<queue, current_queue_idx, play_mode, repeat_mode,
                   now_playing, audio_cmds, worker, dispatcher, calls,
                   selection, ever_played, poll>>

\* AudioPlayer::seek, toggle_pause and stop: command_tx.send(command)?
AudioPlayer_command(command) ==
  IF worker # "dead"
  THEN [ok |-> TRUE, cmds |-> Append(audio_cmds, command)]
  ELSE [ok |-> FALSE, cmds |-> audio_cmds]

\* A plausible slip: the 's' key marks the player stopped by itself.
key_player_state_stops(command, state) ==
  IF command = Stop THEN "Stopped" ELSE state

\* process_global_key_event, what the arms of the seek, pause and stop keys
\* do to app.player_state: they send the command and leave it.
key_player_state(command, state) == state

\* process_global_key_event, the arms of the keys ',', '.', '<', '>', ' '
\* and 's'; a failed send leaves process_events through `?`.
process_global_key_event_command ==
  \E command \in {Seek, TogglePause, Stop} :
    LET sent == AudioPlayer_command(command) IN
    /\ Receives
    /\ audio_cmds' = sent.cmds
    /\ issued' = <<command>>
    /\ dispatcher' = IF sent.ok THEN "running" ELSE "error"
    /\ player_state' = key_player_state(command, player_state)
    /\ lastOp' = "key_command"
    /\ finished' = None
    /\ UNCHANGED <<queue, current_queue_idx, play_mode, repeat_mode,
                   now_playing, worker, calls, selection, ever_played, poll,
                   engine, worker_iter, executor>>

Next ==
  \/ handle_add_tracks_to_queue /\ UNCHANGED loop
  \/ handle_play_track /\ UNCHANGED loop
  \/ handle_play_playlist /\ UNCHANGED loop
  \/ handle_track_finished /\ UNCHANGED loop
  \/ handle_clear_queue /\ UNCHANGED loop
  \/ process_global_key_event_c /\ UNCHANGED loop
  \/ handle_player_state_changed /\ UNCHANGED loop
  \/ audio_player_worker_init
  \/ process_commands

\* The dispatcher handling events in any order, beside the audio worker.
Spec == Init /\ [][Next]_vars

\* The application once an AddTracksToQueue event has been handled: the
\* queue holds the tracks of the event, nothing else has happened yet.
KeyInit ==
  \E tracks \in TrackVecs :
    /\ queue = add_tracks(new, tracks)
    /\ player_state = "Stopped"
    /\ now_playing = None
    /\ current_queue_idx = None
    /\ play_mode = "PlayOne"
    /\ repeat_mode = "NoRepeat"
    /\ audio_cmds = <<>>
    /\ worker = "init"
    /\ dispatcher = "running"
    /\ issued = <<>>
    /\ lastOp = "add_tracks_to_queue"
    /\ prevOp = "new"
    /\ pre = segments(new)
    /\ pre2 = segments(new)
    /\ ret = None
    /\ finished = None
    /\ selection = "never"
    /\ ever_played = FALSE
    /\ WorkerNew
    /\ EngineNew
    /\ ChannelsNew

KeyNext ==
  \/ handle_play_track /\ UNCHANGED loop
  \/ handle_play_playlist /\ UNCHANGED loop
  \/ handle_track_finished /\ UNCHANGED loop
  \/ handle_clear_queue /\ UNCHANGED loop
  \/ handle_player_state_changed /\ UNCHANGED loop
  \/ process_global_key_event_command /\ UNCHANGED loop
  \/ audio_player_worker_init
  \/ process_commands

\* The dispatcher handling events and the playback keys in any order.
KeySpec == KeyInit /\ [][KeyNext]_vars

\* ------------------------------------------------ dispatcher, its loop
\* handle_tick, which also takes Error, FatalError and every event without
\* an arm of its own.
handle_tick ==
  /\ Receives
  /\ issued' = <<>>
  /\ lastOp' = "tick"
  /\ finished' = None
  /\ UNCHANGED <<queue, current_queue_idx, play_mode, repeat_mode, now_playing,
                 audio_cmds, worker, dispatcher, calls, player_state,
                 selection, ever_played, poll, engine, worker_iter, executor>>

\* Events the terminal thread, the commander and the task worker send: one
\* whose handler sends a command, one that changes the play mode, and the
\* ones that have no arm of their own.
LoopEvents ==
  {AppEvent(event, "-", 0) : event \in {"PlayTrack", "PlayPlaylist", "Tick"}}
  \cup {TrackFinished, Error, ExitApplication}

\* event_tx.send(event) by a thread other than the audio worker
event_tx_send ==
  \E event \in LoopEvents :
    /\ dispatcher = "running"
    /\ Len(events) < MaxEvents
    /\ events' = Append(events, event)
    /\ UNCHANGED <<queue, current_queue_idx, play_mode, repeat_mode,
                   now_playing, audio_cmds, worker, dispatcher, issued, lastOp,
                   finished, calls, player_state, selection, ever_played, poll,
                   engine, worker_iter, iteration, executor>>

\* process_events, the match on the event, for the events of LoopEvents;
\* the last arm is `AppEvent::Tick | _`.
handles(event) ==
  \/ event.event = "PlayTrack" /\ handle_play_track
  \/ event.event = "PlayPlaylist" /\ handle_play_playlist
  \/ event.event = "TrackFinished" /\ handle_track_finished
  \/ /\ event.event \notin {"PlayTrack", "PlayPlaylist", "TrackFinished"}
     /\ handle_tick

\* A plausible slip: a fatal error of a worker is taken as a reason to exit.
is_exit_or_fatal(event) == event \in {ExitApplication, FatalError}

\* A plausible slip: the exit event has an arm of the match only, which the
\* catch-all arm takes.
is_exit_never(event) == event \in {}

\* process_events: matches!(event, AppEvent::ExitApplication)
is_exit(event) == event = ExitApplication

\* process_events, one iteration of its loop: recv, the exit check, the
\* handler of the event and terminal.draw; a handler's Err leaves the
\* function through `?` before the draw.
process_events ==
  /\ dispatcher = "running"
  /\ events # <<>>
  /\ events' = Tail(events)
  /\ IF is_exit(Head(events))
     THEN /\ dispatcher' = "exited"
          /\ iteration' =
               Some([event |-> Head(events), handler |-> FALSE, draws |-> 0])
          /\ UNCHANGED <<queue, current_queue_idx, play_mode, repeat_mode,
                         now_playing, audio_cmds, worker, issued, lastOp,
                         finished, calls, player_state, selection, ever_played,
                         poll, engine, worker_iter, executor>>
     ELSE /\ handles(Head(events))
          /\ iteration' =
               Some([event |-> Head(events), handler |-> TRUE,
                     draws |-> IF dispatcher' = "running" THEN 1 ELSE 0])

LoopNext ==
  \/ event_tx_send
  \/ process_events
  \/ audio_player_worker_init
  \/ process_commands

\* The dispatcher's loop beside the threads that send it events.
LoopSpec == QueueInit /\ [][LoopNext]_vars

\* The dispatcher thread is scheduled, and so is the audio worker.
FairLoopSpec ==
  /\ LoopSpec
  /\ WF_vars(process_events)
  /\ WF_vars(audio_player_worker_init)
  /\ WF_vars(process_commands)

\* ------------------------------------------------------- task worker
\* The kinds of AppTask: the catalog scan, a search, a query that answers
\* with one event, a task that does nothing, and the two that write.
AppTasks ==
  {"ScanCatalog", "Search", "GetBrowserArtists", "AddMatchingArtistToQueue",
   "PlayTrack", "RateTrack"}

\* What the task worker did: it took a task, sent an event for it, saw it
\* fail, or came back from handle_task.
Logged(id, entry) == [task |-> id, entry |-> entry]

\* The log entries and the events of a sequence of event names sent for
\* the task id.
RECURSIVE LoggedEvents(_, _)
LoggedEvents(id, names) ==
  IF names = <<>> THEN <<>>
  ELSE <<Logged(id, Head(names))>> \o LoggedEvents(id, Tail(names))

RECURSIVE SentEvents(_)
SentEvents(names) ==
  IF names = <<>> THEN <<>>
  ELSE <<AppEvent(Head(names), "-", 0)>> \o SentEvents(Tail(names))

\* task_tx.send(task), by the dispatcher or the commander
task_tx_send ==
  \E task \in AppTasks :
    /\ task_worker # "dead"
    /\ submitted < MaxTasks
    /\ tasks' = Append(tasks, [task |-> task, id |-> submitted + 1])
    /\ submitted' = submitted + 1
    /\ UNCHANGED <<queue, current_queue_idx, play_mode, repeat_mode,
                   now_playing, audio_cmds, worker, dispatcher, issued, lastOp,
                   finished, calls, player_state, selection, ever_played, poll,
                   engine, worker_iter, loop, task_worker, running, task_log>>

\* spawn_task_worker, the thread up to its loop: init_db(..).expect(..)
\* gives the connection or panics, which ends the thread and drops the
\* receiver.
spawn_task_worker_init ==
  /\ task_worker = "init"
  /\ \/ task_worker' = "recv" /\ tasks' = tasks
     \/ task_worker' = "dead" /\ tasks' = <<>>
  /\ UNCHANGED <<queue, current_queue_idx, play_mode, repeat_mode, now_playing,
                 audio_cmds, worker, dispatcher, issued, lastOp, finished,
                 calls, player_state, selection, ever_played, poll, engine,
                 worker_iter, loop, running, submitted, task_log>>

\* A plausible slip: the worker takes the task sent last.
recv_newest(channel) ==
  [task |-> channel[Len(channel)], left |-> pop(channel)]

\* command_rx.recv(): the task sent first of those waiting
recv(channel) == [task |-> Head(channel), left |-> Tail(channel)]

\* spawn_task_worker: while let Ok(task) = command_rx.recv()
command_rx_recv ==
  /\ task_worker = "recv"
  /\ tasks # <<>>
  /\ running' = Some(recv(tasks).task)
  /\ tasks' = recv(tasks).left
  /\ task_worker' = "run"
  /\ task_log' = Append(task_log, Logged(recv(tasks).task.id, "start"))
  /\ UNCHANGED <<queue, current_queue_idx, play_mode, repeat_mode, now_playing,
                 audio_cmds, worker, dispatcher, issued, lastOp, finished,
                 calls, player_state, selection, ever_played, poll, engine,
                 worker_iter, loop, submitted>>

\* A plausible slip: play_track counts the play before it sends PlayTrack.
handle_task_result_counts_first(task) ==
  CASE task = "Search" ->
         {[sends |-> <<>>, ok |-> TRUE],
          [sends |-> <<"SearchResultsReady">>, ok |-> TRUE],
          [sends |-> <<>>, ok |-> FALSE]}
    [] task = "GetBrowserArtists" ->
         {[sends |-> <<"SetBrowserArtists">>, ok |-> TRUE],
          [sends |-> <<>>, ok |-> FALSE]}
    [] task = "AddMatchingArtistToQueue" ->
         {[sends |-> <<>>, ok |-> TRUE]}
    [] task = "PlayTrack" ->
         {[sends |-> <<"PlayTrack">>, ok |-> TRUE],
          [sends |-> <<>>, ok |-> FALSE]}
    [] task = "RateTrack" ->
         {[sends |-> <<>>, ok |-> TRUE], [sends |-> <<>>, ok |-> FALSE]}

\* handle_task for the tasks other than the scan: the events the function
\* sends and whether it returns Ok, for each way its storage calls can go.
\* search sends nothing for a short query; play_track sends PlayTrack before
\* it counts the play.
handle_task_result(task) ==
  CASE task = "Search" ->
         {[sends |-> <<>>, ok |-> TRUE],
          [sends |-> <<"SearchResultsReady">>, ok |-> TRUE],
          [sends |-> <<>>, ok |-> FALSE]}
    [] task = "GetBrowserArtists" ->
         {[sends |-> <<"SetBrowserArtists">>, ok |-> TRUE],
          [sends |-> <<>>, ok |-> FALSE]}
    [] task = "AddMatchingArtistToQueue" ->
         {[sends |-> <<>>, ok |-> TRUE]}
    [] task = "PlayTrack" ->
         {[sends |-> <<"PlayTrack">>, ok |-> TRUE],
          [sends |-> <<"PlayTrack">>, ok |-> FALSE]}
    [] task = "RateTrack" ->
         {[sends |-> <<>>, ok |-> TRUE], [sends |-> <<>>, ok |-> FALSE]}

\* spawn_task_worker, the body of its loop for a task other than the scan:
\* handle_task, and event_tx.send(Error) when it returned Err.
handle_task ==
  /\ task_worker = "run"
  /\ unwrap(running).task # "ScanCatalog"
  /\ \E r \in handle_task_result(unwrap(running).task) :
    LET id == unwrap(running).id
        names == IF r.ok THEN r.sends ELSE r.sends \o <<"Error">>
    IN
    /\ events' = events \o SentEvents(names)
    /\ task_log' =
         task_log \o LoggedEvents(id, r.sends)
           \o (IF r.ok THEN <<>> ELSE LoggedEvents(id, <<"failed", "Error">>))
           \o <<Logged(id, "end")>>
    /\ running' = None
    /\ task_worker' = "recv"
    /\ UNCHANGED <<queue, current_queue_idx, play_mode, repeat_mode,
                   now_playing, audio_cmds, worker, dispatcher, issued, lastOp,
                   finished, calls, player_state, selection, ever_played, poll,
                   engine, worker_iter, iteration, tasks, submitted>>

\* scan_catalog up to the scan: the three events that empty the browser
scan_catalog_begin ==
  /\ task_worker = "run"
  /\ unwrap(running).task = "ScanCatalog"
  /\ LET id == unwrap(running).id
         names ==
           <<"SetBrowserArtists", "SetBrowserAlbums", "SetBrowserTracks">>
     IN
     /\ events' = events \o SentEvents(names)
     /\ task_log' = task_log \o LoggedEvents(id, names)
  /\ task_worker' = "scan"
  /\ UNCHANGED <<queue, current_queue_idx, play_mode, repeat_mode, now_playing,
                 audio_cmds, worker, dispatcher, issued, lastOp, finished,
                 calls, player_state, selection, ever_played, poll, engine,
                 worker_iter, iteration, tasks, running, submitted>>

\* scan_catalog from the scan on: process_music_library sends its Catalog
\* events and returns Ok, after which CatalogUpdated is sent, or it returns
\* Err after its first event, and `.expect("failed to process catalog")`
\* panics: the thread ends and drops the receiver.
scan_catalog_end ==
  /\ task_worker = "scan"
  /\ LET id == unwrap(running).id IN
     \/ /\ events' =
             events \o SentEvents(<<"Catalog", "Catalog", "CatalogUpdated">>)
        /\ task_log' =
             task_log
               \o LoggedEvents(id, <<"Catalog", "Catalog", "CatalogUpdated">>)
               \o <<Logged(id, "end")>>
        /\ running' = None
        /\ task_worker' = "recv"
        /\ tasks' = tasks
     \/ /\ events' = events \o SentEvents(<<"Catalog">>)
        /\ task_log' =
             task_log \o LoggedEvents(id, <<"Catalog", "failed">>)
        /\ running' = None
        /\ task_worker' = "dead"
        /\ tasks' = <<>>
  /\ UNCHANGED <<queue, current_queue_idx, play_mode, repeat_mode, now_playing,
                 audio_cmds, worker, dispatcher, issued, lastOp, finished,
                 calls, player_state, selection, ever_played, poll, engine,
                 worker_iter, iteration, submitted>>

TaskNext ==
  \/ task_tx_send
  \/ spawn_task_worker_init
  \/ command_rx_recv
  \/ handle_task
  \/ scan_catalog_begin
  \/ scan_catalog_end

\* The task worker beside a sender of tasks.
TaskSpec == QueueInit /\ [][TaskNext]_vars

\* ------------------------------------------------- properties of the Queue
\* The tracks a queue holds, as a multiset.
BagOfSeq(s) ==
  [t \in {s[i] : i \in 1..Len(s)} |-> Cardinality({i \in 1..Len(s) : s[i] = t})]

BagOfSegments(g) == BagOfSeq(g.played \o g.queued)

\* C1: after any sequence of Queue calls, total_duration() is the sum of the
\* durations of the tracks in played plus that of the tracks in queued.
C1_TotalDuration ==
  queue.total_duration = duration_sum(queue.played) + duration_sum(queue.queued)

C1_Witness ==
  /\ lastOp = "next"
  /\ prevOp = "add_tracks"
  /\ pre2.played # <<>>
  /\ queue.played # <<>>
  /\ queue.queued # <<>>

\* C2: after every mutating call, played_duration() is the sum over played
\* and queued_duration() is the sum over queued.
C2_SegmentDurations ==
  /\ queue.played_duration = duration_sum(queue.played)
  /\ queue.queued_duration = duration_sum(queue.queued)

\* C3: next() with a non-empty queued moves its head to the tail of played
\* and returns it; with an empty queued it changes nothing and returns
\* played.last().
C3_Next ==
  lastOp = "next" =>
    IF pre.queued # <<>>
    THEN /\ queue.queued = Tail(pre.queued)
         /\ queue.played = Append(pre.played, Head(pre.queued))
         /\ ret = Some(Head(pre.queued))
    ELSE /\ queue.queued = pre.queued
         /\ queue.played = pre.played
         /\ ret = last(pre.played)

C3_Witness ==
  /\ lastOp = "next"
  /\ Len(pre.queued) >= 2
  /\ pre.queued[1] # pre.queued[2]
  /\ pre.played # <<>>

\* C4: with a non-empty queued, next() immediately followed by previous()
\* leaves played and queued exactly as they were.
C4_NextPrevious ==
  (lastOp = "previous" /\ prevOp = "next" /\ pre2.queued # <<>>) =>
    /\ queue.played = pre2.played
    /\ queue.queued = pre2.queued

C4_Witness ==
  /\ lastOp = "previous"
  /\ prevOp = "next"
  /\ Len(pre2.queued) >= 2
  /\ pre2.queued[1] # pre2.queued[2]
  /\ pre2.played # <<>>

\* C5: next(), previous() and reset() leave the multiset of held tracks
\* unchanged, and only remove_tracks or clear make a track leave the queue.
C5_NavigationKeepsTracks ==
  /\ lastOp \in {"next", "previous", "reset"} =>
       BagOfSegments(queue) = BagOfSegments(pre)
  /\ lastOp \notin {"remove_tracks", "clear"} =>
       BagOfSegments(pre) \sqsubseteq BagOfSegments(queue)

C5_Witness ==
  /\ lastOp = "reset"
  /\ Len(pre.played) >= 2
  /\ pre.queued # <<>>

\* C6: shuffle() leaves queued a permutation of what it was and leaves
\* played as it was, whatever order is picked.
C6_Shuffle ==
  lastOp = "shuffle" =>
    /\ BagOfSeq(queue.queued) = BagOfSeq(pre.queued)
    /\ queue.played = pre.played

C6_Witness ==
  /\ lastOp = "shuffle"
  /\ queue.queued # pre.queued
  /\ queue.played # <<>>

\* C7: after reset(), played is empty and queued is the former played,
\* oldest first, followed by the former queued.
C7_Reset ==
  lastOp = "reset" =>
    /\ queue.played = <<>>
    /\ queue.queued = pre.played \o pre.queued

C7_Witness ==
  /\ lastOp = "reset"
  /\ Len(pre.played) >= 2
  /\ pre.played[1] # pre.played[2]
  /\ pre.queued # <<>>

\* --------------------------------------------- properties of the dispatcher
\* C8: under RepeatAll in Playlist mode, with a non-empty queue and a current
\* selection, a TrackFinished never leaves the selection None: it selects the
\* next index, or index 0 after the last track, and issues PlayFile for it.
C8_RepeatAllKeepsSelection ==
  [][(/\ handle_track_finished
      /\ repeat_mode = "RepeatAll"
      /\ play_mode = "Playlist"
      /\ queue.tracks # <<>>
      /\ current_queue_idx # None)
     => LET i == unwrap(current_queue_idx)
            n == Len(queue.tracks)
            j == IF i + 1 < n THEN i + 1 ELSE 0
        IN /\ current_queue_idx' = Some(j)
           /\ issued' = <<PlayFile(queue.tracks[j + 1].filename)>>]_vars

C8_Witness ==
  /\ lastOp = "track_finished"
  /\ repeat_mode = "RepeatAll"
  /\ play_mode = "Playlist"
  /\ Len(queue.tracks) >= 2
  /\ finished = Some(Len(queue.tracks))
  /\ current_queue_idx = Some(0)
  /\ issued = <<PlayFile(queue.tracks[1].filename)>>

\* C9: under NoRepeat, after PlayPlaylist started a queue of N tracks at its
\* first track, the selection is still set after each of the first N-1
\* TrackFinished events and is None at the N-th.
C9_NoRepeatExhausts ==
  (repeat_mode = "NoRepeat" /\ finished # None) =>
    LET k == unwrap(finished)
        n == Len(queue.tracks)
    IN /\ k < n => current_queue_idx # None
       /\ k = n => current_queue_idx = None

C9_Witness ==
  /\ lastOp = "track_finished"
  /\ repeat_mode = "NoRepeat"
  /\ Len(queue.tracks) >= 2
  /\ finished = Some(Len(queue.tracks))
  /\ current_queue_idx = None

\* C10: after a TrackFinished in Playlist mode the track the dispatcher has
\* selected is the queue's current(), the last of played.
C10_SelectionIsQueueCurrent ==
  (lastOp = "track_finished" /\ play_mode = "Playlist"
     /\ current_queue_idx # None) =>
    current(queue) = get(queue.tracks, unwrap(current_queue_idx))

\* C11 as claimed: in Playlist mode under RepeatOne with an index set, a
\* TrackFinished leaves the index unchanged and issues no PlayFile.
C11_RepeatOneSilent ==
  [][(/\ handle_track_finished
      /\ play_mode = "Playlist"
      /\ repeat_mode = "RepeatOne"
      /\ current_queue_idx # None)
     => /\ current_queue_idx' = current_queue_idx
        /\ issued' = <<>>]_vars

\* C11 as amended: in Playlist mode under RepeatOne with an index set, a
\* TrackFinished leaves the index unchanged and issues one PlayFile for the
\* track at that index, which plays the same track again.
C11_RepeatOneReplays ==
  [][(/\ handle_track_finished
      /\ play_mode = "Playlist"
      /\ repeat_mode = "RepeatOne"
      /\ current_queue_idx # None)
     => /\ current_queue_idx' = current_queue_idx
        /\ unwrap(current_queue_idx) < Len(queue.tracks)
        /\ issued' =
             <<PlayFile(queue.tracks[unwrap(current_queue_idx) + 1].filename)>>]_vars

C11_Witness ==
  /\ lastOp = "track_finished"
  /\ play_mode = "Playlist"
  /\ repeat_mode = "RepeatOne"
  /\ Len(queue.tracks) >= 2
  /\ finished = Some(2)
  /\ current_queue_idx = Some(0)
  /\ issued = <<PlayFile(queue.tracks[1].filename)>>

\* C12: in PlayOne mode a TrackFinished issues no command and leaves the
\* index, now_playing, the play mode and the queue as they were.
C12_PlayOneIgnoresFinished ==
  [][(handle_track_finished /\ play_mode = "PlayOne")
     => /\ issued' = <<>>
        /\ UNCHANGED <<audio_cmds, current_queue_idx, now_playing, play_mode,
                       queue>>]_vars

C12_Witness ==
  /\ lastOp = "track_finished"
  /\ play_mode = "PlayOne"
  /\ current_queue_idx = Some(0)
  /\ Len(queue.tracks) >= 2
  /\ now_playing # None
  /\ issued = <<>>

\* C13: PlayPlaylist sets the mode to Playlist; with no selection and a
\* non-empty queue it selects the first track, issues one PlayFile for it and
\* makes it now_playing; otherwise it issues nothing and keeps the selection.
C13_PlayPlaylist ==
  [][handle_play_playlist
     => /\ play_mode' = "Playlist"
        /\ IF current_queue_idx = None /\ queue.tracks # <<>>
           THEN /\ current_queue_idx' = Some(0)
                /\ issued' = <<PlayFile(queue.tracks[1].filename)>>
                /\ now_playing' = Some(queue.tracks[1])
           ELSE /\ issued' = <<>>
                /\ current_queue_idx' = current_queue_idx]_vars

\* C14: PlayTrack(track) sets the mode to PlayOne, issues one PlayFile for
\* the track's file, makes the track now_playing and leaves the queue and the
\* index as they were.
C14_PlayTrack ==
  [][handle_play_track
     => /\ play_mode' = "PlayOne"
        /\ \E track \in AllTracks :
             /\ issued' = <<PlayFile(track.filename)>>
             /\ now_playing' = Some(track)
        /\ UNCHANGED <<queue, current_queue_idx>>]_vars

\* C15: ClearQueue, as an event or as the 'c' key, empties both segments and
\* the snapshot, sets the index to None, issues no command and leaves
\* now_playing and the player state as they were.
C15_ClearQueue ==
  [][(handle_clear_queue \/ process_global_key_event_c)
     => /\ queue'.played = <<>>
        /\ queue'.queued = <<>>
        /\ queue'.tracks = <<>>
        /\ current_queue_idx' = None
        /\ issued' = <<>>
        /\ UNCHANGED <<audio_cmds, now_playing, player_state>>]_vars

C15_Witness ==
  /\ lastOp = "clear_queue"
  /\ queue.tracks = <<>>
  /\ current_queue_idx = None
  /\ now_playing # None
  /\ player_state = "Playing"
  /\ audio_cmds # <<>>

\* C16 as claimed: the index is None only if nothing has ever been played or
\* the queue was exhausted by a TrackFinished without repeat.
C16_NoneNeverOrExhausted ==
  current_queue_idx = None => (~ever_played \/ selection = "exhausted")

\* C16 as amended: the index is None only if no PlayPlaylist has selected a
\* track yet, or the queue was cleared (ClearQueue or the 'c' key) since the
\* last selection, or it was exhausted by a TrackFinished without repeat.
C16_NoneNeverClearedOrExhausted ==
  current_queue_idx = None => selection \in {"never", "cleared", "exhausted"}

C16_Witness ==
  /\ lastOp = "key_c"
  /\ current_queue_idx = None
  /\ selection = "cleared"
  /\ ever_played
  /\ now_playing # None

\* ------------------------------------------- properties of the audio worker
\* The state the two flags stand for, as the specification tabulates it.
StateOfFlags(paused, idle) ==
  CASE idle -> "Stopped"
    [] ~idle /\ paused -> "Paused"
    [] ~idle /\ ~paused -> "Playing"

IsStateEvent(a) == a.event = "PlayerStateChanged"

\* The states of the PlayerStateChanged events of all iterations, in order.
RECURSIVE StatesSent(_)
StatesSent(log) ==
  IF log = <<>> THEN <<>>
  ELSE LET mine == SelectSeq(Head(log).sent, IsStateEvent)
       IN [i \in 1..Len(mine) |-> mine[i].state] \o StatesSent(Tail(log))

IdleActive(b) == Some(MpvEvent("PropertyChange", "idle-active", "Flag", b, 0))

\* C17: player_state is Stopped when idle, else Paused when paused, else
\* Playing, for all four values of the flags; the worker's recorded state is
\* that function of its flags.
C17_PlayerState ==
  /\ \A paused, idle \in BOOLEAN :
       AudioPlayer_player_state(paused, idle) = StateOfFlags(paused, idle)
  /\ current_state = StateOfFlags(is_paused, is_idle)

C17_Witness ==
  /\ polls # <<>>
  /\ is_paused
  /\ is_idle
  /\ current_state = "Stopped"

\* C18: a PlayerStateChanged is sent only when the state computed after a
\* notification differs from the recorded one, so no two consecutive
\* PlayerStateChanged carry the same state; idle=true then idle=false, not
\* paused, sends exactly one, carrying Playing.
C18_StateChangesOnly ==
  /\ \A i \in 1..Len(polls) :
       \A j \in 1..Len(polls[i].sent) :
         IsStateEvent(polls[i].sent[j]) =>
           /\ polls[i].event # None
           /\ StateOfFlags(polls[i].paused, polls[i].idle) # polls[i].before
           /\ polls[i].sent[j].state =
                StateOfFlags(polls[i].paused, polls[i].idle)
  /\ LET states == <<"Stopped">> \o StatesSent(polls)
     IN \A k \in 1..(Len(states) - 1) : states[k] # states[k + 1]
  /\ (Len(polls) = 2 /\ polls[1].event = IdleActive(TRUE)
        /\ polls[2].event = IdleActive(FALSE))
       => StatesSent(polls) = <<"Playing">>

C18_Witness ==
  /\ Len(polls) = 2
  /\ polls[1].event = IdleActive(TRUE)
  /\ polls[2].event = IdleActive(FALSE)
  /\ polls[1].sent = <<>>
  /\ polls[2].sent = <<PlayerStateChanged("Playing")>>

\* C19: one iteration sends at most one PlayerStateChanged, and sends it
\* before a content event of the same iteration.
C19_StateEventFirst ==
  \A i \in 1..Len(polls) :
    LET sent == polls[i].sent IN
    /\ Len(SelectSeq(sent, IsStateEvent)) <= 1
    /\ \A j, k \in 1..Len(sent) :
         (IsStateEvent(sent[j]) /\ ~IsStateEvent(sent[k])) => j < k

C19_Witness ==
  \E i \in 1..Len(polls) :
    /\ polls[i].event =
         Some(MpvEvent("PropertyChange", "pause", "Flag", TRUE, 0))
    /\ polls[i].before = "Playing"
    /\ polls[i].sent = <<PlayerStateChanged("Paused")>>

\* C20: an EndFile sends exactly one TrackFinished when it is Ok with reason
\* EOF and sends nothing for another reason or for Err.
C20_EndFile ==
  \A i \in 1..Len(polls) :
    (polls[i].event # None /\ unwrap(polls[i].event).ev = "EndFile") =>
      IF unwrap(polls[i].event) = MpvEvent("EndFile", "Ok", "EOF", FALSE, 0)
      THEN polls[i].sent = <<TrackFinished>>
      ELSE polls[i].sent = <<>>

C20_Witness ==
  /\ Len(polls) >= 2
  /\ polls[Len(polls) - 1].event = Some(MpvEvent("EndFile", "Ok", "STOP", FALSE, 0))
  /\ polls[Len(polls) - 1].sent = <<>>
  /\ polls[Len(polls)].event = Some(MpvEvent("EndFile", "Ok", "EOF", FALSE, 0))
  /\ polls[Len(polls)].sent = <<TrackFinished>>
  /\ current_state = "Playing"

TimePos(v) == MpvEvent("PropertyChange", "time-pos", "Double", FALSE, v)
TimeChanged(v) == AppEvent("TimeChanged", "-", v)

\* C21: no TimeChanged the worker sends carries a negative position: a
\* time-pos notification with a negative value sends no event, and one with
\* a value of zero or more sends TimeChanged with that value.
C21_TimeChanged ==
  \A i \in 1..Len(polls) :
    LET sent == polls[i].sent IN
    /\ \A j \in 1..Len(sent) :
         sent[j].event = "TimeChanged" => sent[j].value >= 0
    /\ \A v \in {-1, 0, 5} :
         polls[i].event = Some(TimePos(v)) =>
           sent = IF v >= 0 THEN <<TimeChanged(v)>> ELSE <<>>

C21_Witness ==
  /\ Len(polls) = 3
  /\ polls[1].event = Some(TimePos(-1))
  /\ polls[1].sent = <<>>
  /\ polls[2].event = Some(TimePos(0))
  /\ polls[2].sent = <<TimeChanged(0)>>
  /\ polls[3].event = Some(TimePos(5))
  /\ polls[3].sent = <<TimeChanged(5)>>

\* ------------------------------- properties of the audio worker's commands
IsPrefix(a, b) == Len(a) <= Len(b) /\ a = SubSeq(b, 1, Len(a))

Loads(cmds) == SelectSeq(cmds, LAMBDA c : c.cmd = "PlayFile")

\* C22: when two PlayFile commands wait in the channel one after the other,
\* a drain hands both loads to the engine in the order they were sent, and
\* when they are the last commands of the drain the engine's media is the
\* file of the second; a drain never makes its engine calls in another
\* order than the channel's.
C22_TwoPlayFiles ==
  [][worker_drain =>
       /\ IsPrefix(drained', audio_cmds)
       /\ \A i \in 1..(Len(audio_cmds) - 1) :
            (/\ worker' = "loop"
             /\ audio_cmds[i].cmd = "PlayFile"
             /\ audio_cmds[i + 1].cmd = "PlayFile")
            => /\ drained'[i] = audio_cmds[i]
               /\ drained'[i + 1] = audio_cmds[i + 1]
               /\ i + 1 = Len(audio_cmds) =>
                    engine'.media = Some(audio_cmds[i + 1].filename)]_vars

C22_Witness ==
  /\ worker = "loop"
  /\ worker_pc = "poll"
  /\ drained = <<PlayFile(1), PlayFile(2)>>
  /\ engine.media = Some(2)
  /\ audio_cmds = <<>>

InChannel(command) == \E i \in 1..Len(audio_cmds) : audio_cmds[i] = command

Executed(command) == \E i \in 1..Len(drained) : drained[i] = command

\* C23: the drain of an iteration that goes on to poll has executed every
\* command that was in the channel, in send order, and left the channel
\* empty; the poll comes only after the drain; and a command in the
\* channel is in the end executed unless the worker thread has ended.
C23_DrainThenPoll ==
  /\ [][worker_drain =>
          /\ audio_cmds' = <<>>
          /\ worker' = "loop" => (drained' = audio_cmds /\ worker_pc' = "poll")
          /\ worker' # "loop" => worker_pc' # "poll"]_vars
  /\ [][worker_poll => (worker_pc = "poll" /\ worker_pc' = "commands")]_vars
  /\ \A command \in AudioCommands :
       InChannel(command) ~> (Executed(command) \/ worker = "dead")

C23_Witness ==
  /\ worker = "loop"
  /\ worker_pc = "commands"
  /\ drained = <<Seek, PlayFile(1)>>
  /\ engine.media = Some(1)
  /\ audio_cmds = <<TogglePause>>

\* --------------------------------------- properties of the dispatcher's loop
Count(s, x) == Len(SelectSeq(s, LAMBDA y : y = x))

Iterated(event, handler, draws) ==
  Some([event |-> event, handler |-> handler, draws |-> draws])

\* C24: when the engine fails to start, the audio worker sends one
\* FatalError and ends; once it has ended no command is executed and no
\* further FatalError is sent; and the dispatcher's iteration for a
\* FatalError keeps the loop running, refreshes, and leaves the queue, the
\* selection, the modes, now_playing, the player state and the command
\* channel as they were.
C24_EngineFailsToStart ==
  /\ [][(audio_player_worker_init /\ worker' = "dead") =>
          /\ events' = Append(events, FatalError)
          /\ UNCHANGED <<engine, drained>>]_vars
  /\ [][worker = "dead" =>
          /\ worker' = "dead"
          /\ UNCHANGED <<engine, drained>>
          /\ Count(events', FatalError) <= Count(events, FatalError)]_vars
  /\ [][(process_events /\ Head(events) = FatalError) =>
          /\ dispatcher' = "running"
          /\ iteration' = Iterated(FatalError, TRUE, 1)
          /\ UNCHANGED <<queue, current_queue_idx, play_mode, repeat_mode,
                         now_playing, player_state, audio_cmds>>]_vars

C24_Witness ==
  /\ worker = "dead"
  /\ engine = dropped
  /\ drained = <<>>
  /\ iteration = Iterated(FatalError, TRUE, 1)
  /\ dispatcher = "running"
  /\ now_playing # None
  /\ play_mode = "Playlist"
  /\ events # <<>>

\* C25: when a handler's send of a command fails because the worker has
\* ended, the dispatcher reports an Error event and its loop goes on.
C25_FailedSendReported ==
  [][(process_events /\ Head(events).event = "PlayTrack" /\ worker = "dead")
     => /\ dispatcher' = "running"
        /\ Count(events', Error) = Count(Tail(events), Error) + 1]_vars

\* C26: the dispatcher's loop ends only in the iteration that takes
\* ExitApplication off the channel.
C26_EndsOnlyOnExit ==
  [][(dispatcher = "running" /\ dispatcher' # "running")
     => (process_events /\ Head(events) = ExitApplication)]_vars

\* C27: the iteration that takes ExitApplication ends the loop and runs
\* neither a handler nor a refresh; events are taken in arrival order; and
\* once ExitApplication waits in the channel the loop ends.
C27_ExitFirst ==
  /\ [][(process_events /\ Head(events) = ExitApplication) =>
          /\ dispatcher' = "exited"
          /\ iteration' = Iterated(ExitApplication, FALSE, 0)
          /\ UNCHANGED <<queue, current_queue_idx, play_mode, repeat_mode,
                         now_playing, player_state, audio_cmds, issued>>]_vars
  /\ [][process_events =>
          /\ events' = Tail(events)
          /\ unwrap(iteration').event = Head(events)]_vars
  /\ (Count(events, ExitApplication) > 0) ~> (dispatcher # "running")

C27_Witness ==
  /\ dispatcher = "exited"
  /\ iteration = Iterated(ExitApplication, FALSE, 0)
  /\ lastOp = "play_track"
  /\ now_playing # None
  /\ events = <<AppEvent("PlayPlaylist", "-", 0)>>

\* C28: every iteration that ran a handler made exactly one refresh.
C28_OneRefresh ==
  (iteration # None /\ unwrap(iteration).handler) =>
    unwrap(iteration).draws = 1

\* The entries of the log that are events sent to the dispatcher.
IsSent(e) == e.entry \notin {"start", "end", "failed"}

RECURSIVE EventsOf(_)
EventsOf(log) ==
  IF log = <<>> THEN <<>>
  ELSE (IF IsSent(Head(log))
        THEN <<AppEvent(Head(log).entry, "-", 0)>> ELSE <<>>)
       \o EventsOf(Tail(log))

\* C29: the task worker runs the tasks one at a time in the order they were
\* sent: the k-th task it starts is the k-th task sent, a task starts only
\* when every task sent before it has come back from handle_task, at most
\* one task is running, and the dispatcher's channel holds the events in the
\* order of the tasks that sent them.
C29_OneAtATimeInOrder ==
  /\ \A i \in 1..Len(task_log) : \A j \in 1..Len(task_log) :
       i < j => task_log[i].task <= task_log[j].task
  /\ \A i \in 1..Len(task_log) :
       task_log[i].entry = "start" =>
         IF i = 1 THEN task_log[i].task = 1
         ELSE task_log[i - 1] = Logged(task_log[i].task - 1, "end")
  /\ \A t \in 1..Len(tasks) :
       /\ tasks[t].id > (IF task_log = <<>> THEN 0
                         ELSE task_log[Len(task_log)].task)
       /\ t > 1 => tasks[t - 1].id < tasks[t].id
  /\ events = EventsOf(task_log)

\* Two tasks that both sent events have run, the scan first.
C29_Witness ==
  /\ \E i \in 1..Len(task_log) : task_log[i] = Logged(1, "CatalogUpdated")
  /\ \E i \in 1..Len(task_log) : task_log[i] = Logged(2, "PlayTrack")
  /\ \E i \in 1..Len(task_log) : task_log[i] = Logged(3, "start")

\* C30: a task that fails is followed by an Error event for that task, and
\* the worker goes on: it does not end while tasks may still be sent.
C30_FailureReported ==
  /\ \A i \in 1..Len(task_log) :
       task_log[i].entry = "failed" =>
         /\ i < Len(task_log)
         /\ task_log[i + 1] = Logged(task_log[i].task, "Error")
  /\ (\E i \in 1..Len(task_log) : task_log[i].entry = "failed")
       => task_worker # "dead"

\* C33: after each add_tracks, shuffle or clear call on a Queue,
\* queued_duration() + played_duration() is total_duration().
C33_DurationsAddUp ==
  lastOp \in {"add_tracks", "shuffle", "clear"} =>
    queue.queued_duration + queue.played_duration = queue.total_duration

C33_Witness ==
  /\ lastOp = "shuffle"
  /\ prevOp = "add_tracks"
  /\ Len(queue.queued) >= 2
  /\ queue.queued # pre.queued
  /\ queue.total_duration > 0

\* The tracks of s whose id is not in ids, in their order in s.
RECURSIVE Kept(_, _)
Kept(s, ids) ==
  IF s = <<>> THEN <<>>
  ELSE (IF Head(s).track_id \in ids THEN <<>> ELSE <<Head(s)>>)
       \o Kept(Tail(s), ids)

HasId(s, ids) == \E i \in 1..Len(s) : s[i].track_id \in ids

\* C34: remove_tracks(ids) leaves no track with an id of ids in played, in
\* queued or in the snapshot, leaves every other track in its segment in
\* its relative order, and sends nothing to the audio worker.
C34_RemoveTracks ==
  [][\A ids \in SUBSET TrackIds :
       CallRemoveTracksOf(ids) =>
         /\ ~HasId(queue'.played, ids)
         /\ ~HasId(queue'.queued, ids)
         /\ ~HasId(queue'.tracks, ids)
         /\ queue'.played = Kept(queue.played, ids)
         /\ queue'.queued = Kept(queue.queued, ids)
         /\ audio_cmds' = audio_cmds
         /\ issued' = issued]_vars

\* A call that took a track out of each segment and left another.
C34_Witness ==
  /\ lastOp = "remove_tracks"
  /\ Len(queue.played) < Len(pre.played)
  /\ Len(queue.queued) < Len(pre.queued)
  /\ queue.tracks # <<>>

\* C37: after any sequence of Queue calls the snapshot given by tracks() is
\* played followed by queued, also after reset, next and previous, which
\* do not refresh it.
C37_SnapshotIsSegments ==
  queue.tracks = queue.played \o queue.queued

C37_Witness ==
  /\ lastOp \in {"reset", "previous"}
  /\ prevOp = "next"
  /\ pre2.played # <<>>
  /\ Len(queue.queued) >= 2
  /\ queue.queued[1] # queue.queued[2]

\* The engine after the first k commands of the worker's last drain.
EngineAfter(k) == run(drained_from, SubSeq(drained, 1, k)).engine

\* C36: a PlayFile the worker has executed left the engine with that file
\* as its media and not paused, whatever the engine held and whether or
\* not it was paused before the command.
C36_PlayFileUnpauses ==
  worker = "loop" =>
    \A k \in 1..Len(drained) :
      drained[k].cmd = "PlayFile" =>
        /\ EngineAfter(k) =
             [media |-> Some(drained[k].filename), pause |-> FALSE]
        /\ k = Len(drained) => engine = EngineAfter(k)

\* The engine held track 1 and was not paused; the drain paused it and
\* then executed PlayFile for track 2.
C36_Witness ==
  /\ worker = "loop"
  /\ drained_from = [media |-> Some(1), pause |-> FALSE]
  /\ drained = <<TogglePause, PlayFile(2)>>
  /\ engine = [media |-> Some(2), pause |-> FALSE]

\* C32: app.player_state changes only in the step that handles a
\* PlayerStateChanged event, and then to the state the event carries; the
\* handlers of PlayTrack, PlayPlaylist, TrackFinished and ClearQueue and the
\* seek, pause and stop keys leave it as it was.
C32_PlayerStateOnlyByEvent ==
  [][/\ player_state' # player_state =>
          /\ handle_player_state_changed
          /\ lastOp' = "player_state_changed"
     /\ lastOp' \in {"play_track", "play_playlist", "track_finished",
                     "clear_queue", "key_command"}
          => player_state' = player_state]_vars

\* The 's' key was handled while the application showed Playing, with a
\* playlist under way, and the state is still Playing.
C32_Witness ==
  /\ lastOp = "key_command"
  /\ issued = <<Stop>>
  /\ player_state = "Playing"
  /\ play_mode = "Playlist"
  /\ current_queue_idx # None
  /\ dispatcher = "running"

\* C35: the iteration that takes TrackFinished in Playlist mode with an
\* empty queue leaves the index None, sends no command, leaves now_playing
\* as it was, and the loop goes on: the handler ran and the refresh was
\* made.
C35_FinishedOnEmptyQueue ==
  [][(/\ process_events
      /\ Head(events) = TrackFinished
      /\ play_mode = "Playlist"
      /\ queue.tracks = <<>>)
     => /\ current_queue_idx' = None
        /\ issued' = <<>>
        /\ audio_cmds' = audio_cmds
        /\ now_playing' = now_playing
        /\ dispatcher' = "running"
        /\ iteration' = Iterated(TrackFinished, TRUE, 1)]_vars

\* A track was playing by PlayTrack, the mode was then set to Playlist with
\* nothing queued, and TrackFinished has been handled.
C35_Witness ==
  /\ iteration = Iterated(TrackFinished, TRUE, 1)
  /\ lastOp = "track_finished"
  /\ play_mode = "Playlist"
  /\ queue.tracks = <<>>
  /\ current_queue_idx = None
  /\ now_playing # None
  /\ dispatcher = "running"

\* C38: in every state of the dispatcher, an index Some(i) is the index of
\* a track of the snapshot: i is less than the number of its tracks.
C38_IndexInSnapshot ==
  current_queue_idx # None =>
    unwrap(current_queue_idx) < Len(queue.tracks)

\* The last track of a queue of several is selected after a TrackFinished,
\* and tracks have been added since the playlist started.
C38_Witness ==
  /\ lastOp = "track_finished"
  /\ Len(queue.tracks) >= 2
  /\ current_queue_idx = Some(Len(queue.tracks) - 1)
  /\ repeat_mode = "NoRepeat"
  /\ finished = None

\* A notification of the pause flag or of the idle flag.
IsFlagEvent(o) ==
  /\ o # None
  /\ unwrap(o).ev = "PropertyChange"
  /\ unwrap(o).name \in {"pause", "idle-active"}
  /\ unwrap(o).format = "Flag"

\* The worker's recorded state after the i-th poll iteration.
StateAfter(i) ==
  IF i < Len(polls) THEN polls[i + 1].before ELSE current_state

\* C39: after every poll iteration the worker's recorded state is
\* player_state of its two flags; an iteration sends a PlayerStateChanged
\* only if it handled a notification of the pause or the idle flag; and an
\* iteration sends at most one event.
C39_OneEventPerPoll ==
  /\ current_state = AudioPlayer_player_state(is_paused, is_idle)
  /\ \A i \in 1..Len(polls) :
       /\ StateAfter(i) = StateOfFlags(polls[i].paused, polls[i].idle)
       /\ (\E j \in 1..Len(polls[i].sent) : IsStateEvent(polls[i].sent[j]))
            => IsFlagEvent(polls[i].event)
       /\ Len(polls[i].sent) <= 1

\* The engine leaves idle, reports a position, and is paused: one event in
\* each of the three iterations.
C39_Witness ==
  /\ Len(polls) = 3
  /\ polls[1].event = IdleActive(FALSE)
  /\ polls[1].sent = <<PlayerStateChanged("Playing")>>
  /\ polls[2].event = Some(TimePos(5))
  /\ polls[2].sent = <<TimeChanged(5)>>
  /\ polls[3].event =
       Some(MpvEvent("PropertyChange", "pause", "Flag", TRUE, 0))
  /\ polls[3].sent = <<PlayerStateChanged("Paused")>>
  /\ current_state = "Paused"

\* The events a step added to the dispatcher's channel.
Enqueued == SubSeq(events', Len(events) + 1, Len(events'))

\* The task with this id was seen to fail.
Failed(log, id) == \E i \in 1..Len(log) : log[i] = Logged(id, "failed")

\* C40: the task worker running a PlayTrack task puts the PlayTrack event
\* in the dispatcher's channel first; when the play count cannot be written
\* an Error event follows it, and otherwise nothing does; either way the
\* worker goes on to its next task.
C40_PlayTrackBeforeCount ==
  [][(handle_task /\ unwrap(running).task = "PlayTrack")
     => /\ events = SubSeq(events', 1, Len(events))
        /\ Enqueued =
             IF Failed(task_log', unwrap(running).id)
             THEN <<AppEvent("PlayTrack", "-", 0), Error>>
             ELSE <<AppEvent("PlayTrack", "-", 0)>>
        /\ task_worker' = "recv"]_vars

\* A PlayTrack task whose count failed came after a task that sent an event
\* of its own: the channel ends with PlayTrack and Error.
C40_Witness ==
  /\ Len(events) >= 3
  /\ events[Len(events) - 2] = AppEvent("SetBrowserArtists", "-", 0)
  /\ events[Len(events) - 1] = AppEvent("PlayTrack", "-", 0)
  /\ events[Len(events)] = Error
  /\ Failed(task_log, 2)
  /\ ~Failed(task_log, 1)
  /\ task_worker = "recv"

\* Error and FatalError events in a channel.
Reports(chan) == Count(chan, Error) + Count(chan, FatalError)

\* C31: a worker thread that ends has sent an Error or FatalError event for
\* the error that ended it: the step in which the audio worker or the task
\* worker ends adds such an event to the dispatcher's channel.
C31_WorkerErrorsReported ==
  [][/\ (worker # "dead" /\ worker' = "dead")
          => Reports(events') = Reports(events) + 1
     /\ (task_worker # "dead" /\ task_worker' = "dead")
          => Reports(events') = Reports(events) + 1]_vars


====
